---- MODULE Spec2Model ----
(***************************************************************************)
(* Model of src/src/monitoring/core.py: the MonitoringSystem orchestrator  *)
(* (registry, alert list, metric history, thresholds) and its operations   *)
(* add_resource, monitor_resources and check_thresholds.                   *)
(*                                                                         *)
(* Floats are modelled by the integers they equal (80.0 -> 80): every      *)
(* value used is integral, so `>` on them is exact.  Alert.timestamp and   *)
(* MetricData.unit/timestamp are never read by the orchestrator and are    *)
(* left out of the records.                                                *)
(***************************************************************************)
EXTENDS Integers, Sequences, FiniteSets, TLC

VARIABLES resources, alerts, metric_history, thresholds,
          pc, idx, outcome, cycle_start, call, ncycles, nchecks

vars == <<resources, alerts, metric_history, thresholds,
          pc, idx, outcome, cycle_start, call, ncycles, nchecks>>

----------------------------------------------------------------------------
(* Bounds *)

MaxCycles == 2

MaxChecks == 1

----------------------------------------------------------------------------
(* Inputs *)

\* resource ids a caller may pass; the empty string is a legal Python str
Ids == {"", "R1", "R2"}

\* metric names of a directly checked batch: one with a limit, one without
MetricNames == {"CPUUtilization", "CustomMetric"}

\* sample values: below, at and above the CPUUtilization limit, and far above
\* every limit for the metric that has none
Samples ==
    [name : {"CPUUtilization"}, value : {79, 80, 85}]
        \cup [name : {"CustomMetric"}, value : {999}]

RECURSIVE SeqsUpTo(_, _)
SeqsUpTo(S, n) ==
    IF n = 0 THEN {<<>>}
    ELSE LET shorter == SeqsUpTo(S, n - 1)
         IN  shorter \cup {Append(q, x) : q \in {p \in shorter : Len(p) = n - 1}, x \in S}

\* a metrics dict: insertion-ordered, one entry per metric name
IsDict(b) == \A i, j \in 1..Len(b) : b[i].name = b[j].name => i = j

Batches == {b \in SeqsUpTo(Samples, Cardinality(MetricNames)) : IsDict(b)}

\* outcome of collect_metrics when it raises (the base class always does)
Raises == [raises |-> TRUE, metrics |-> <<>>]

Returns(metrics) == [raises |-> FALSE, metrics |-> metrics]

\* batches the concrete resources of the model return from collect_metrics:
\* one with two samples over their limits, one at its limit and one
\* unmonitored, and one with an unmonitored sample only
MixedBatch ==
    << [name |-> "CPUUtilization", value |-> 85],
       [name |-> "DiskUtilization", value |-> 85],
       [name |-> "CustomMetric", value |-> 999],
       [name |-> "MemoryUtilization", value |-> 90] >>

CustomBatch == << [name |-> "CustomMetric", value |-> 999] >>

\* the resource objects a caller may register: two share the id R2, one has
\* the empty id
Resources ==
    { [resource_id |-> "R1", collect |-> Returns(MixedBatch)],
      [resource_id |-> "R2", collect |-> Returns(CustomBatch)],
      [resource_id |-> "R2", collect |-> Raises],
      [resource_id |-> "", collect |-> Returns(CustomBatch)] }

----------------------------------------------------------------------------
(* Pure parts of the code *)

\* the seed with the DiskUtilization limit mistyped
DefaultThresholdsDisk80 ==
    [n \in {"CPUUtilization", "MemoryUtilization", "DiskUtilization", "DatabaseConnections"} |->
        CASE n = "CPUUtilization" -> 80
          [] n = "MemoryUtilization" -> 80
          [] n = "DiskUtilization" -> 80
          [] n = "DatabaseConnections" -> 90]

DefaultThresholds ==
    [n \in {"CPUUtilization", "MemoryUtilization", "DiskUtilization", "DatabaseConnections"} |->
        CASE n = "CPUUtilization" -> 80
          [] n = "MemoryUtilization" -> 80
          [] n = "DiskUtilization" -> 85
          [] n = "DatabaseConnections" -> 90]

\* the constructor with threshold and current_value stored crosswise
AlertCrossed(resource_id, metric_name, threshold, current_value, severity) ==
    [resource_id |-> resource_id, metric_name |-> metric_name,
     threshold |-> current_value, current_value |-> threshold,
     severity |-> severity, resolved |-> FALSE]

Alert(resource_id, metric_name, threshold, current_value, severity) ==
    [resource_id |-> resource_id, metric_name |-> metric_name,
     threshold |-> threshold, current_value |-> current_value,
     severity |-> severity, resolved |-> FALSE]

\* the comparison written `>=`
ExceedsOrEquals(value, threshold) == value >= threshold

\* `value > threshold`
Exceeds(value, threshold) == value > threshold

\* the loop body with `self.thresholds.get(metric_name, 0)` in place of the
\* membership test
CheckSampleDefaultLimit(al, resource_id, sample, th) ==
    LET value == sample.value
        threshold == IF sample.name \in DOMAIN th THEN th[sample.name] ELSE 0
    IN  IF Exceeds(value, threshold)
        THEN Append(al, Alert(resource_id, sample.name, threshold, value, "HIGH"))
        ELSE al

\* the loop body with `self.alerts.insert(0, alert)` in place of append
CheckSampleInsertFirst(al, resource_id, sample, th) ==
    IF sample.name \in DOMAIN th
    THEN LET value == sample.value
             threshold == th[sample.name]
         IN  IF Exceeds(value, threshold)
             THEN <<Alert(resource_id, sample.name, threshold, value, "HIGH")>> \o al
             ELSE al
    ELSE al

\* body of the for loop of check_thresholds, for one (metric_name, metric_data)
CheckSample(al, resource_id, sample, th) ==
    IF sample.name \in DOMAIN th
    THEN LET value == sample.value
             threshold == th[sample.name]
         IN  IF Exceeds(value, threshold)
             THEN Append(al, Alert(resource_id, sample.name, threshold, value, "HIGH"))
             ELSE al
    ELSE al

\* check_thresholds: the alert list after iterating metrics.items() in order
RECURSIVE check_thresholds(_, _, _, _)
check_thresholds(al, resource_id, metrics, th) ==
    IF metrics = <<>> THEN al
    ELSE check_thresholds(CheckSample(al, resource_id, Head(metrics), th),
                          resource_id, Tail(metrics), th)

\* self.resources[resource.resource_id] = resource on an insertion-ordered dict:
\* an existing key keeps its position, a new key goes last
\* `self.resources.setdefault(resource.resource_id, resource)`: first write wins
PutResourceKeepFirst(reg, r) ==
    IF \E i \in 1..Len(reg) : reg[i].resource_id = r.resource_id
    THEN reg
    ELSE Append(reg, r)

PutResource(reg, r) ==
    IF \E i \in 1..Len(reg) : reg[i].resource_id = r.resource_id
    THEN [i \in 1..Len(reg) |-> IF reg[i].resource_id = r.resource_id THEN r ELSE reg[i]]
    ELSE Append(reg, r)

\* resource.collect_metrics(): Returns(batch), or Raises
collect_metrics(r) == r.collect

\* store_metrics(resource_id, metrics): append the batch to the id's history.
\* core.py calls it (line 92) and does not define it; this is recordMetrics of
\* the specification (4.4).  An id without history stands for an absent key.
store_metrics(h, resource_id, metrics) ==
    [h EXCEPT ![resource_id] = Append(@, metrics)]

NoCall == [op |-> "none"]

NoCycle == [alerts |-> <<>>, metric_history |-> [i \in Ids |-> <<>>]]

----------------------------------------------------------------------------
(* State machine *)

Init ==
    /\ resources = <<>>
    /\ alerts = <<>>
    /\ metric_history = [i \in Ids |-> <<>>]
    /\ thresholds = DefaultThresholds
    /\ pc = "idle"
    /\ idx = 0
    /\ outcome = "none"
    /\ cycle_start = NoCycle
    /\ call = NoCall
    /\ ncycles = 0
    /\ nchecks = 0

add_resource(r) ==
    /\ pc = "idle"
    /\ resources' = PutResource(resources, r)
    /\ call' = [op |-> "add_resource", resource |-> r]
    /\ UNCHANGED <<alerts, metric_history, thresholds, pc, idx, outcome,
                   cycle_start, ncycles, nchecks>>

\* a direct call of the public method check_thresholds
CheckThresholdsCall(id, metrics) ==
    /\ pc = "idle"
    /\ nchecks < MaxChecks
    /\ nchecks' = nchecks + 1
    /\ alerts' = check_thresholds(alerts, id, metrics, thresholds)
    /\ call' = [op |-> "check_thresholds", resource_id |-> id, metrics |-> metrics]
    /\ UNCHANGED <<resources, metric_history, thresholds, pc, idx, outcome,
                   cycle_start, ncycles>>

\* monitor_resources is entered: the for loop starts on the first value
BeginCycle ==
    /\ pc = "idle"
    /\ ncycles < MaxCycles
    /\ ncycles' = ncycles + 1
    /\ pc' = "running"
    /\ idx' = 1
    /\ outcome' = "none"
    /\ cycle_start' = [alerts |-> alerts, metric_history |-> metric_history]
    /\ call' = [op |-> "monitor_resources"]
    /\ UNCHANGED <<resources, alerts, metric_history, thresholds, nchecks>>

\* one iteration of the loop whose collect_metrics returns a batch
VisitResource ==
    /\ pc = "running"
    /\ idx <= Len(resources)
    /\ LET resource == resources[idx]
           collected == collect_metrics(resource)
           metrics == collected.metrics
       IN  /\ ~collected.raises
           /\ alerts' = check_thresholds(alerts, resource.resource_id, metrics, thresholds)
           /\ metric_history' = store_metrics(metric_history, resource.resource_id, metrics)
           /\ call' = [op |-> "check_thresholds", resource_id |-> resource.resource_id,
                       metrics |-> metrics]
    /\ idx' = idx + 1
    /\ UNCHANGED <<resources, thresholds, pc, outcome, cycle_start, ncycles, nchecks>>

\* one iteration whose collect_metrics raises: nothing catches the exception,
\* so it leaves monitor_resources
VisitRaises ==
    /\ pc = "running"
    /\ idx <= Len(resources)
    /\ collect_metrics(resources[idx]).raises
    /\ pc' = "idle"
    /\ idx' = 0
    /\ outcome' = "raised"
    /\ cycle_start' = NoCycle
    /\ UNCHANGED <<resources, alerts, metric_history, thresholds, call, ncycles, nchecks>>

\* the loop is exhausted: monitor_resources returns None
EndCycle ==
    /\ pc = "running"
    /\ idx > Len(resources)
    /\ pc' = "idle"
    /\ idx' = 0
    /\ outcome' = "returned"
    /\ cycle_start' = NoCycle
    /\ UNCHANGED <<resources, alerts, metric_history, thresholds, call, ncycles, nchecks>>

Next ==
    \/ \E r \in Resources : add_resource(r)
    \/ \E id \in Ids, metrics \in Batches : CheckThresholdsCall(id, metrics)
    \/ BeginCycle
    \/ VisitResource
    \/ VisitRaises
    \/ EndCycle

Spec == Init /\ [][Next]_vars

----------------------------------------------------------------------------
(* Vocabulary of the properties *)

IsPrefix(s, t) == Len(s) <= Len(t) /\ SubSeq(t, 1, Len(s)) = s

Suffix(s, n) == SubSeq(s, n + 1, Len(s))

\* the resources registered under an id
Lookup(reg, id) == {reg[i] : i \in {k \in 1..Len(reg) : reg[k].resource_id = id}}

Count(s, P(_)) == Cardinality({k \in 1..Len(s) : P(s[k])})

Monitored(name) == name \in DOMAIN thresholds

OnlyUnmonitored(metrics) == \A i \in 1..Len(metrics) : ~Monitored(metrics[i].name)

\* a step in which check_thresholds ran, directly or inside the loop; its
\* arguments are then call'.resource_id and call'.metrics
CheckStep ==
    \/ pc = "idle" /\ nchecks' = nchecks + 1
    \/ pc = "running" /\ idx' = idx + 1

AddStep == pc = "idle" /\ call'.op = "add_resource"

\* the step on which monitor_resources is left, by return or by exception
CycleEnds == pc = "running" /\ pc' = "idle"

\* the alerts a finished cycle added for an id
CycleAlertsFor(id) ==
    SelectSeq(Suffix(alerts', Len(cycle_start.alerts)), LAMBDA a : a.resource_id = id)

----------------------------------------------------------------------------
(* Properties *)

\* C1: whenever check_thresholds runs on (resource id, batch), every sample
\* whose name has a limit and whose value is strictly above it accounts for
\* exactly one appended alert, and that alert carries the given id, the
\* sample's name and value, the configured limit, severity "HIGH" and
\* resolved = FALSE.
C1_OverLimitAlertsOnce ==
    [][CheckStep =>
        LET id == call'.resource_id
            metrics == call'.metrics
            new == Suffix(alerts', Len(alerts))
        IN  /\ IsPrefix(alerts, alerts')
            /\ \A i \in 1..Len(metrics) :
                 (Monitored(metrics[i].name) /\ metrics[i].value > thresholds[metrics[i].name]) =>
                    /\ Count(new, LAMBDA a : a.metric_name = metrics[i].name) = 1
                    /\ \E k \in 1..Len(new) :
                         new[k] = [resource_id |-> id,
                                   metric_name |-> metrics[i].name,
                                   threshold |-> thresholds[metrics[i].name],
                                   current_value |-> metrics[i].value,
                                   severity |-> "HIGH",
                                   resolved |-> FALSE]]_vars

C1_Witness ==
    /\ call = [op |-> "check_thresholds", resource_id |-> "R1", metrics |-> MixedBatch]
    /\ Len(alerts) >= 2
    /\ Suffix(alerts, Len(alerts) - 2) =
         << [resource_id |-> "R1", metric_name |-> "CPUUtilization", threshold |-> 80,
             current_value |-> 85, severity |-> "HIGH", resolved |-> FALSE],
            [resource_id |-> "R1", metric_name |-> "MemoryUtilization", threshold |-> 80,
             current_value |-> 90, severity |-> "HIGH", resolved |-> FALSE] >>

\* C2: whenever check_thresholds runs, a sample whose value is equal to or
\* below the limit of its name adds no alert for that (resource id, name).
C2_AtOrBelowLimitNoAlert ==
    [][CheckStep =>
        LET id == call'.resource_id
            metrics == call'.metrics
            new == Suffix(alerts', Len(alerts))
        IN  \A i \in 1..Len(metrics) :
              (Monitored(metrics[i].name) /\ metrics[i].value <= thresholds[metrics[i].name]) =>
                 Count(new, LAMBDA a : a.resource_id = id /\ a.metric_name = metrics[i].name) = 0]_vars

\* a batch with CPUUtilization exactly at 80 was checked directly and the
\* alert list is still empty
C2_Witness ==
    /\ call.op = "check_thresholds"
    /\ nchecks = 1
    /\ \E i \in 1..Len(call.metrics) :
         call.metrics[i] = [name |-> "CPUUtilization", value |-> 80]
    /\ alerts = <<>>

C4_OneBatchPerCycle ==
    [][(CycleEnds /\ \A j \in 1..Len(resources) : resources[j].resource_id # "") =>
        \A i \in 1..Len(resources) :
           ~resources[i].collect.raises =>
              metric_history'[resources[i].resource_id] =
                 Append(cycle_start.metric_history[resources[i].resource_id],
                        resources[i].collect.metrics)]_vars

\* C5: when monitor_resources is left, a resource whose collection fails has
\* no new alert and no new history entry, and every other registered resource,
\* before or after it, has the alerts and the history entry of a cycle of its
\* own.  (Stated for the registries without an empty id, as C4.)
C5_FailureIsolated ==
    [][(CycleEnds /\ \A j \in 1..Len(resources) : resources[j].resource_id # "") =>
        \A i \in 1..Len(resources) :
           LET id == resources[i].resource_id
               collected == resources[i].collect
           IN  IF collected.raises
               THEN /\ CycleAlertsFor(id) = <<>>
                    /\ metric_history'[id] = cycle_start.metric_history[id]
               ELSE /\ CycleAlertsFor(id) =
                         check_thresholds(<<>>, id, collected.metrics, thresholds)
                    /\ metric_history'[id] =
                         Append(cycle_start.metric_history[id], collected.metrics)]_vars

\* C6: monitor_resources is only ever left by returning, after the loop has
\* gone past the last registered resource.
C6_CycleAlwaysReturns ==
    [][CycleEnds => (outcome' = "returned" /\ idx = Len(resources) + 1)]_vars

\* C7: no reachable registry has an entry under the empty id.
C7_EmptyIdNeverRegistered ==
    \A i \in 1..Len(resources) : resources[i].resource_id # ""

\* C8: the registry holds at most one resource per id; add_resource(r) leaves
\* r as the resource under r.resource_id, leaves what is under every other id
\* as it was, and changes neither alerts, metric history nor thresholds.
C8_LastWriteWins ==
    [][/\ \A id \in Ids : Cardinality(Lookup(resources', id)) <= 1
       /\ AddStep =>
            LET r == call'.resource
            IN  /\ Lookup(resources', r.resource_id) = {r}
                /\ \A id \in Ids \ {r.resource_id} :
                     Lookup(resources', id) = Lookup(resources, id)
                /\ alerts' = alerts
                /\ metric_history' = metric_history
                /\ thresholds' = thresholds]_vars

\* R2 was registered returning a batch, went through a cycle, and has been
\* registered again with a collection that raises: the second object is the
\* one in the registry, in the first one's place
C8_Witness ==
    /\ call = [op |-> "add_resource",
               resource |-> [resource_id |-> "R2", collect |-> Raises]]
    /\ metric_history["R2"] = <<CustomBatch>>
    /\ Len(resources) = 2
    /\ resources[1] = [resource_id |-> "R2", collect |-> Raises]
    /\ resources[2].resource_id = "R1"

\* C9: every step leaves the old alert list as a prefix of the new one.
C9_AlertsAppendOnly == [][IsPrefix(alerts, alerts')]_vars

\* alerts of two cycles and a direct check, in detection order
C9_Witness ==
    /\ ncycles = 2
    /\ nchecks = 1
    /\ call.op = "check_thresholds"
    /\ Len(alerts) = 5
    /\ alerts[1].resource_id = "R1" /\ alerts[1].metric_name = "CPUUtilization"
    /\ alerts[2].resource_id = "R1" /\ alerts[2].metric_name = "MemoryUtilization"
    /\ alerts[5].resource_id = "R2" /\ alerts[5].current_value = 85
    /\ \A k \in 1..Len(alerts) : ~alerts[k].resolved

\* C10: the thresholds are the seed values in every state and no step changes
\* them; no step of a cycle changes the registry.
C10_CycleFrame ==
    [][/\ thresholds = [n \in {"CPUUtilization", "MemoryUtilization",
                               "DiskUtilization", "DatabaseConnections"} |->
                          IF n = "DiskUtilization" THEN 85
                          ELSE IF n = "DatabaseConnections" THEN 90 ELSE 80]
       /\ thresholds' = thresholds
       /\ (pc = "running" \/ pc' = "running") => resources' = resources]_vars

\* a cycle over three resources has returned with alerts raised
C10_Witness ==
    /\ pc = "idle"
    /\ outcome = "returned"
    /\ Len(resources) = 3
    /\ Len(alerts) > 0
    /\ \A i \in 1..Len(resources) : Len(metric_history[resources[i].resource_id]) > 0
====
